---- MODULE Spec2Model ----
(***************************************************************************)
(* Model of app_dashboard.py: the module-level load/normalise block and    *)
(* the update_graphs callback.                                             *)
(*                                                                         *)
(* A table cell is a sequence: <<>> is a missing cell (NaN / NaT), <<v>>   *)
(* a present scalar and <<y, m, d>> a date (a raw date text before         *)
(* parsing, a timestamp after).  A data frame is the sequence of its rows, *)
(* each row a record keyed by column name.  The Japanese column names and  *)
(* titles of the source are written in romaji / English gloss.             *)
(***************************************************************************)
EXTENDS Integers, Sequences, FiniteSets, TLC

VARIABLES
    data_csv,         \* the file DATA_FILE: [status, rows]
    phase,            \* "boot" | "ready" (module imported) | "crashed"
    df,               \* module-level data frame
    gender_options,   \* dropdown options of 'gender-filter'
    product_options,  \* dropdown options of 'product-filter'
    selected,         \* <<selected_gender, selected_product>> of the last call
    filtered_df,      \* update_graphs' local filtered_df at its return
    figs,             \* the 4-tuple the last update_graphs call returned
    pc,               \* per request thread: position inside update_graphs
    args,             \* per request thread: <<selected_gender, selected_product>>
    frames,           \* per call frame: the local filtered_df
    ret,              \* per request thread: returned 4-tuple
    cut_x,            \* input cell of pd.cut
    cut_out           \* output cell of pd.cut

vars == <<data_csv, phase, df, gender_options, product_options, selected,
          filtered_df, figs, pc, args, frames, ret, cut_x, cut_out>>

-----------------------------------------------------------------------------
(* Bounds *)

MaxRows == 2        \* rows in data.csv
MaxConcRows == 2    \* rows in data.csv when request threads interleave
MaxAge == 101       \* largest age given to pd.cut

-----------------------------------------------------------------------------
(* Cells *)

NaN == <<>>
NaT == <<>>
isna(c) == c = <<>>
notna(c) == c # <<>>

IsLeap(y) == (y % 4 = 0 /\ y % 100 # 0) \/ y % 400 = 0

DaysInMonth(y, m) ==
    IF m \in {4, 6, 9, 11} THEN 30
    ELSE IF m = 2 THEN (IF IsLeap(y) THEN 29 ELSE 28)
    ELSE 31

IsDate(t) ==
    /\ Len(t) = 3
    /\ t[2] \in 1..12
    /\ t[3] \in 1..DaysInMonth(t[1], t[2])

\* pd.to_datetime(..., errors='coerce'): an unparsable text becomes NaT.
to_datetime(c) == IF IsDate(c) THEN c ELSE NaT

DateLess(a, b) ==
    \/ a[1] < b[1]
    \/ a[1] = b[1] /\ a[2] < b[2]
    \/ a[1] = b[1] /\ a[2] = b[2] /\ a[3] < b[3]

\* .dt.month in place of .dt.to_period('M'): the year is lost.
to_period_month_only(ts) == <<0, ts[2]>>

\* .dt.to_period('M') and .dt.to_timestamp()
to_period_M(ts) == <<ts[1], ts[2]>>
to_timestamp(per) == <<per[1], per[2], 1>>
PeriodOrdinal(per) == per[1] * 12 + (per[2] - 1)

\* Python's str ordering on the names used here.
Collation == <<"A", "B", "C", "F", "M">>
StrRank(s) == CHOOSE i \in 1..Len(Collation) : Collation[i] = s

-----------------------------------------------------------------------------
(* Sequence helpers *)

RECURSIVE SumSeq(_)
SumSeq(s) == IF s = <<>> THEN 0 ELSE s[1] + SumSeq(Tail(s))

Range(s) == {s[i] : i \in 1..Len(s)}

IndexPermutations(n) ==
    {p \in [1..n -> 1..n] : \A i, j \in 1..n : p[i] = p[j] => i = j}

\* Every arrangement of the rows of s. An unstable sort (kind='quicksort',
\* the default of sort_values) may return any of them that is in key order.
Arrangements(s) ==
    {[i \in 1..Len(s) |-> s[p[i]]] : p \in IndexPermutations(Len(s))}

\* The group keys of a groupby: the elements of the finite set S in
\* increasing order of ordinal, a function on S that tells them apart.
SortedKeys(S, ordinal) ==
    CHOOSE t \in [1..Cardinality(S) -> S] :
        \A i, j \in 1..Cardinality(S) : i < j => ordinal[t[i]] < ordinal[t[j]]

\* Series.unique(): distinct values in order of first appearance.
RECURSIVE unique(_)
unique(s) ==
    IF s = <<>> THEN <<>>
    ELSE LET init == unique(SubSeq(s, 1, Len(s) - 1))
             x == s[Len(s)]
         IN IF x \in Range(init) THEN init ELSE Append(init, x)

Column(d, col) == [i \in 1..Len(d) |-> d[i][col]]

-----------------------------------------------------------------------------
(* 1. Load and cleanse *)

RawColumns == {"KeiyakuNichiji", "KyanseruNichiji", "Kakaku", "ShohinMei",
               "Seibetsu", "Nenrei"}

RawRow(cd, xd, price, product, gender, age) ==
    [KeiyakuNichiji |-> cd, KyanseruNichiji |-> xd, Kakaku |-> price,
     ShohinMei |-> product, Seibetsu |-> gender, Nenrei |-> age]

\* df.rename(columns={...})
rename(r) ==
    [ContractDate |-> r.KeiyakuNichiji, CancellationDate |-> r.KyanseruNichiji,
     Price |-> r.Kakaku, ProductName |-> r.ShohinMei, Gender |-> r.Seibetsu,
     Age |-> r.Nenrei]

parse_dates(r) ==
    [r EXCEPT !.ContractDate = to_datetime(r.ContractDate),
              !.CancellationDate = to_datetime(r.CancellationDate)]

\* A subset that leaves out 'Price'.
dropna_subset_without_price == <<"ContractDate", "Gender", "ProductName">>

\* df.dropna(subset=['ContractDate', 'Price', 'Gender', 'ProductName'])
dropna_subset == <<"ContractDate", "Price", "Gender", "ProductName">>
dropna(d) ==
    SelectSeq(d, LAMBDA r : \A i \in 1..Len(dropna_subset) : notna(r[dropna_subset[i]]))

ContractDateLE(a, b) == ~DateLess(b.ContractDate, a.ContractDate)

\* df.sort_values('ContractDate'): rows of equal date in any order.
sort_values_ContractDate(d) ==
    {t \in Arrangements(d) :
        \A i \in 1..(Len(t) - 1) : ContractDateLE(t[i], t[i + 1])}

bins == <<0, 20, 30, 40, 50, 60, 70, 100>>
labels == <<"~19", "20s", "30s", "40s", "50s", "60s", "70+">>

\* bins.searchsorted(x, side='left'): what right=True would use.
searchsorted_left(b, x) == Cardinality({i \in 1..Len(b) : b[i] < x})

\* bins.searchsorted(x, side='right'), as pd.cut uses for right=False.
searchsorted(b, x) == Cardinality({i \in 1..Len(b) : b[i] <= x})

\* pd.cut(x, bins=bins, labels=labels, right=False)
cut(c) ==
    IF isna(c) THEN NaN
    ELSE LET ids == searchsorted(bins, c[1])
         IN IF ids = Len(bins) \/ ids = 0 THEN NaN ELSE <<labels[ids]>>

enrich(r) ==
    [ContractDate |-> r.ContractDate, CancellationDate |-> r.CancellationDate,
     Price |-> r.Price, ProductName |-> r.ProductName, Gender |-> r.Gender,
     Age |-> r.Age,
     IsCancelled |-> notna(r.CancellationDate),
     AgeGroup |-> cut(r.Age)]

All == "All"
AllOption == [label |-> "Subete", value |-> All]

options(d, col) ==
    LET u == unique(Column(d, col))
    IN <<AllOption>> \o [i \in 1..Len(u) |-> [label |-> u[i][1], value |-> u[i][1]]]

\* The data frames the "if not df.empty" branch can leave in df.
normalize(rows) ==
    LET renamed == [i \in 1..Len(rows) |-> rename(rows[i])]
        parsed == [i \in 1..Len(renamed) |-> parse_dates(renamed[i])]
        kept == dropna(parsed)
    IN {[i \in 1..Len(s) |-> enrich(s[i])] : s \in sort_values_ContractDate(kept)}

LoadOk ==
    /\ phase = "boot"
    /\ data_csv.status = "ok"
    /\ IF data_csv.rows # <<>>
       THEN \E d \in normalize(data_csv.rows) :
                /\ df' = d
                /\ gender_options' = options(d, "Gender")
                /\ product_options' = options(d, "ProductName")
       ELSE /\ df' = <<>>
            /\ gender_options' = <<AllOption>>
            /\ product_options' = <<AllOption>>
    /\ phase' = "ready"
    /\ UNCHANGED <<data_csv, selected, filtered_df, figs, pc, args, frames, ret,
                   cut_x, cut_out>>

\* except FileNotFoundError: df = pd.DataFrame()
LoadFileNotFound ==
    /\ phase = "boot"
    /\ data_csv.status = "missing"
    /\ df' = <<>>
    /\ gender_options' = <<AllOption>>
    /\ product_options' = <<AllOption>>
    /\ phase' = "ready"
    /\ UNCHANGED <<data_csv, selected, filtered_df, figs, pc, args, frames, ret,
                   cut_x, cut_out>>

\* Any other exception of read_csv (PermissionError, UnicodeDecodeError,
\* EmptyDataError, ParserError) is not caught: the import fails.
LoadRaises ==
    /\ phase = "boot"
    /\ data_csv.status = "unreadable"
    /\ phase' = "crashed"
    /\ UNCHANGED <<data_csv, df, gender_options, product_options, selected,
                   filtered_df, figs, pc, args, frames, ret, cut_x, cut_out>>

-----------------------------------------------------------------------------
(* 4. update_graphs *)

NotLoadedTitle == "data is not loaded"
NoMatchTitle == "no data matches the filter"

Fig(kind, title, data, category_orders) ==
    [kind |-> kind, title |-> title, data |-> data,
     category_orders |-> category_orders]

empty_fig == Fig("placeholder", NotLoadedTitle, <<>>, <<>>)
no_match_fig == Fig("placeholder", NoMatchTitle, <<>>, <<>>)

\* df.copy()
copy(d) == d

\* filtered_df[filtered_df['Gender'] == selected_gender]
filter_gender(d, selected_gender) ==
    IF selected_gender # All
    THEN SelectSeq(d, LAMBDA r : r.Gender = <<selected_gender>>)
    ELSE d

\* filtered_df[filtered_df['ProductName'] == selected_product]
filter_product(d, selected_product) ==
    IF selected_product # All
    THEN SelectSeq(d, LAMBDA r : r.ProductName = <<selected_product>>)
    ELSE d

\* groupby(ContractDate.dt.to_period('M'))['Price'].sum().reset_index(),
\* then ContractDate back to a timestamp.
sales_trend_df(fd) ==
    LET periods == {to_period_M(r.ContractDate) : r \in Range(fd)}
        keys == SortedKeys(periods, [k \in periods |-> PeriodOrdinal(k)])
        group(k) == SelectSeq(fd, LAMBDA r : to_period_M(r.ContractDate) = k)
        prices(g) == [i \in 1..Len(g) |-> g[i].Price[1]]
    IN [i \in 1..Len(keys) |->
           [ContractDate |-> to_timestamp(keys[i]),
            Price |-> SumSeq(prices(group(keys[i])))]]

\* Without the "if sales_trend_df.empty" test.
time_series_fig_unchecked(fd) ==
    Fig("line", "monthly total sales trend", sales_trend_df(fd), <<>>)

time_series_fig(fd) ==
    LET t == sales_trend_df(fd)
    IN IF t = <<>> THEN no_match_fig
       ELSE Fig("line", "monthly total sales trend", t, <<>>)

\* Labels compared as plain strings: "~19" sorts after "70+".
LabelAlphabetical(l) ==
    LET i == CHOOSE k \in 1..Len(labels) : labels[k] = l
    IN IF i = 1 THEN Len(labels) ELSE i - 1

\* Position of a label among the ordered categories of AgeGroup.
LabelCode(l) == CHOOSE i \in 1..Len(labels) : labels[i] = l

\* Order of the (AgeGroup, Gender) keys: by category code, then by gender.
AgeGenderOrdinal(k) == LabelCode(k[1]) * (Len(Collation) + 1) + StrRank(k[2])

\* groupby(['AgeGroup', 'Gender'], observed=True)['ContractDate'].count()
age_gender_df(fd) ==
    LET grouped == SelectSeq(fd, LAMBDA r : notna(r.AgeGroup) /\ notna(r.Gender))
        pairs == {<<r.AgeGroup[1], r.Gender[1]>> : r \in Range(grouped)}
        keys == SortedKeys(pairs, [k \in pairs |-> AgeGenderOrdinal(k)])
        group(k) == SelectSeq(grouped, LAMBDA r : <<r.AgeGroup[1], r.Gender[1]>> = k)
    IN [i \in 1..Len(keys) |->
           [AgeGroup |-> keys[i][1], Gender |-> keys[i][2],
            ContractCount |->
                Len(SelectSeq(group(keys[i]), LAMBDA r : notna(r.ContractDate)))]]

age_gender_fig(fd) ==
    LET t == age_gender_df(fd)
    IN IF t = <<>> THEN no_match_fig
       ELSE Fig("bar", "contracts by age group and gender", t, labels)

(* Exact fractions <<numerator, denominator>> in lowest terms stand for
   the float64 values of the ChurnRate column. *)
RECURSIVE GCD(_, _)
GCD(a, b) == IF b = 0 THEN a ELSE GCD(b, a % b)
Frac(n, d) == LET g == GCD(n, d) IN <<n \div g, d \div g>>
FracUnscaled(q, k) == q
FracTimes(q, k) == Frac(q[1] * k, q[2])
FracLE(p, q) == p[1] * q[2] <= q[1] * p[2]

\* groupby('ProductName').agg(TotalContracts=count, Cancellations=sum),
\* ChurnRate = (Cancellations / TotalContracts) * 100
churn_summary(fd) ==
    LET grouped == SelectSeq(fd, LAMBDA r : notna(r.ProductName))
        names == {r.ProductName[1] : r \in Range(grouped)}
        keys == SortedKeys(names, [k \in names |-> StrRank(k)])
        group(k) == SelectSeq(grouped, LAMBDA r : r.ProductName[1] = k)
        total(g) == Len(SelectSeq(g, LAMBDA r : notna(r.ContractDate)))
        cancelled(g) == Len(SelectSeq(g, LAMBDA r : r.IsCancelled))
    IN [i \in 1..Len(keys) |->
           LET g == group(keys[i])
           IN [ProductName |-> keys[i],
               TotalContracts |-> total(g),
               Cancellations |-> cancelled(g),
               ChurnRate |-> FracTimes(Frac(cancelled(g), total(g)), 100)]]

\* ascending=True
ChurnRateLE(a, b) == FracLE(a.ChurnRate, b.ChurnRate)

ChurnRateGE(a, b) == FracLE(b.ChurnRate, a.ChurnRate)

\* churn_summary.sort_values('ChurnRate', ascending=False): rows of equal
\* rate in any order.
sort_values_ChurnRate(t) ==
    {u \in Arrangements(t) :
        \A i \in 1..(Len(u) - 1) : ChurnRateGE(u[i], u[i + 1])}

nunique(d, col) == Cardinality({r[col] : r \in {x \in Range(d) : notna(x[col])}})

\* The figures px.bar can be handed, one per outcome of the sort.
product_churn_fig(fd) ==
    IF fd = <<>> \/ nunique(fd, "ProductName") = 0
    THEN {no_match_fig}
    ELSE {Fig("bar", "churn rate by product", t, <<>>) :
             t \in sort_values_ChurnRate(churn_summary(fd))}

\* px.histogram(x='Age', color='IsCancelled', histnorm='percent',
\* barmode='overlay', category_orders={'IsCancelled': [False, True]}) and the
\* renaming of the trace names.
trace_name(b) == IF b THEN "cancelled" ELSE "not cancelled"

age_churn_fig(fd) ==
    IF fd = <<>> THEN no_match_fig
    ELSE LET present == SelectSeq(<<FALSE, TRUE>>,
                                  LAMBDA b : \E r \in Range(fd) : r.IsCancelled = b)
             ages(b) == Column(SelectSeq(fd, LAMBDA r : r.IsCancelled = b), "Age")
         IN Fig("histogram percent overlay", "age distribution by cancellation",
                [i \in 1..Len(present) |->
                    [name |-> trace_name(present[i]), x |-> ages(present[i])]],
                <<FALSE, TRUE>>)

\* The 4-tuples update_graphs can return for a filtered frame.
build_figs(fd) ==
    {<<time_series_fig(fd), age_gender_fig(fd), c, age_churn_fig(fd)>> :
        c \in product_churn_fig(fd)}

\* The product filter applied to df instead of filtered_df.
filtered_overwritten(d, selected_gender, selected_product) ==
    IF selected_product # All
    THEN filter_product(copy(d), selected_product)
    ELSE filter_gender(copy(d), selected_gender)

filtered(d, selected_gender, selected_product) ==
    filter_product(filter_gender(copy(d), selected_gender), selected_product)

Genders == {"F", "M"}
Products == {"A", "B"}
GenderSelectors == {All} \cup Genders
ProductSelectors == {All} \cup Products

\* Without the "if df.empty" return: indexing the column-less frame raises.
raised_fig == Fig("raised", "KeyError", <<>>, <<>>)
update_graphs_unguarded(selected_gender, selected_product) ==
    /\ phase = "ready"
    /\ selected' = <<selected_gender, selected_product>>
    /\ IF df = <<>>
       THEN /\ figs' = <<raised_fig, raised_fig, raised_fig, raised_fig>>
            /\ UNCHANGED filtered_df
       ELSE /\ filtered_df' = filtered(df, selected_gender, selected_product)
            /\ figs' \in build_figs(filtered_df')
    /\ UNCHANGED <<data_csv, phase, df, gender_options, product_options,
                   pc, args, frames, ret, cut_x, cut_out>>

update_graphs(selected_gender, selected_product) ==
    /\ phase = "ready"
    /\ selected' = <<selected_gender, selected_product>>
    /\ IF df = <<>>
       THEN /\ figs' = <<empty_fig, empty_fig, empty_fig, empty_fig>>
            /\ UNCHANGED filtered_df
       ELSE /\ filtered_df' = filtered(df, selected_gender, selected_product)
            /\ figs' \in build_figs(filtered_df')
    /\ UNCHANGED <<data_csv, phase, df, gender_options, product_options,
                   pc, args, frames, ret, cut_x, cut_out>>

UpdateGraphs ==
    \E g \in GenderSelectors, p \in ProductSelectors : update_graphs(g, p)

-----------------------------------------------------------------------------
(* update_graphs statement by statement, one call per request thread *)

Threads == {1, 2}

\* A module-level filtered_df: every call would use the same frame.
SharedFrame(t) == 1

\* filtered_df is a local of update_graphs: each call has its own frame.
LocalFrame(t) == t

\* "if df.empty: return ..." and "filtered_df = df.copy()"
Call(t, selected_gender, selected_product) ==
    /\ phase = "ready"
    /\ pc[t] = "idle"
    /\ args' = [args EXCEPT ![t] = <<selected_gender, selected_product>>]
    /\ IF df = <<>>
       THEN /\ ret' = [ret EXCEPT ![t] = <<empty_fig, empty_fig, empty_fig, empty_fig>>]
            /\ pc' = [pc EXCEPT ![t] = "done"]
            /\ UNCHANGED frames
       ELSE /\ frames' = [frames EXCEPT ![LocalFrame(t)] = copy(df)]
            /\ pc' = [pc EXCEPT ![t] = "filter_gender"]
            /\ UNCHANGED ret
    /\ UNCHANGED <<data_csv, phase, df, gender_options, product_options,
                   selected, filtered_df, figs, cut_x, cut_out>>

StepGender(t) ==
    /\ pc[t] = "filter_gender"
    /\ frames' = [frames EXCEPT ![LocalFrame(t)] =
                      filter_gender(frames[LocalFrame(t)], args[t][1])]
    /\ pc' = [pc EXCEPT ![t] = "filter_product"]
    /\ UNCHANGED <<data_csv, phase, df, gender_options, product_options,
                   selected, filtered_df, figs, args, ret, cut_x, cut_out>>

StepProduct(t) ==
    /\ pc[t] = "filter_product"
    /\ frames' = [frames EXCEPT ![LocalFrame(t)] =
                      filter_product(frames[LocalFrame(t)], args[t][2])]
    /\ pc' = [pc EXCEPT ![t] = "build"]
    /\ UNCHANGED <<data_csv, phase, df, gender_options, product_options,
                   selected, filtered_df, figs, args, ret, cut_x, cut_out>>

StepBuild(t) ==
    /\ pc[t] = "build"
    /\ ret' \in {[ret EXCEPT ![t] = f] : f \in build_figs(frames[LocalFrame(t)])}
    /\ pc' = [pc EXCEPT ![t] = "done"]
    /\ UNCHANGED <<data_csv, phase, df, gender_options, product_options,
                   selected, filtered_df, figs, args, frames, cut_x, cut_out>>

\* The response is sent and the frame is gone.
Return(t) ==
    /\ pc[t] = "done"
    /\ pc' = [pc EXCEPT ![t] = "idle"]
    /\ args' = [args EXCEPT ![t] = <<>>]
    /\ ret' = [ret EXCEPT ![t] = <<>>]
    /\ frames' = [frames EXCEPT ![LocalFrame(t)] = <<>>]
    /\ UNCHANGED <<data_csv, phase, df, gender_options, product_options,
                   selected, filtered_df, figs, cut_x, cut_out>>

CallAny == \E t \in Threads, g \in GenderSelectors, p \in ProductSelectors : Call(t, g, p)
StepGenderAny == \E t \in Threads : StepGender(t)
StepProductAny == \E t \in Threads : StepProduct(t)
StepBuildAny == \E t \in Threads : StepBuild(t)
ReturnAny == \E t \in Threads : Return(t)

-----------------------------------------------------------------------------
(* pd.cut on its own *)

Cut ==
    /\ cut_out = <<"pending">>
    /\ cut_out' = cut(cut_x)
    /\ UNCHANGED <<data_csv, phase, df, gender_options, product_options,
                   selected, filtered_df, figs, pc, args, frames, ret, cut_x>>

-----------------------------------------------------------------------------
(* Specifications *)

SeqsUpTo(S, n) == UNION {[1..k -> S] : k \in 0..n}

Files(RowSet, n) ==
    {[status |-> "ok", rows |-> r] : r \in SeqsUpTo(RowSet, n)}
        \cup {[status |-> "missing", rows |-> <<>>],
              [status |-> "unreadable", rows |-> <<>>]}

InitWith(files, cut_inputs, cut_start) ==
    /\ data_csv \in files
    /\ phase = "boot"
    /\ df = <<>>
    /\ gender_options = <<>>
    /\ product_options = <<>>
    /\ selected = <<>>
    /\ filtered_df = <<>>
    /\ figs = <<>>
    /\ pc = [t \in Threads |-> "idle"]
    /\ args = [t \in Threads |-> <<>>]
    /\ frames = [t \in Threads |-> <<>>]
    /\ ret = [t \in Threads |-> <<>>]
    /\ cut_x \in cut_inputs
    /\ cut_out = cut_start

Next == LoadOk \/ LoadFileNotFound \/ LoadRaises \/ UpdateGraphs

\* Rows whose required cells may be missing or unparsable.
LoadRows ==
    {RawRow(cd, NaN, price, product, gender, <<20>>) :
        cd \in {NaN, <<2024, 2, 30>>, <<2024, 1, 31>>, <<2023, 12, 5>>},
        price \in {NaN, <<3>>},
        product \in {NaN, <<"A">>},
        gender \in {NaN, <<"F">>}}

InitLoad == InitWith(Files(LoadRows, MaxRows), {NaN}, NaN)
SpecLoad == InitLoad /\ [][Next]_vars

\* Valid rows that differ in product, gender and cancellation (none, a
\* date, an unparsable text).
ChurnRows ==
    {RawRow(<<2024, 1, 31>>, xd, <<3>>, <<product>>, <<gender>>, <<25>>) :
        xd \in {NaN, <<2024, 3, 1>>, <<2024, 13, 1>>},
        product \in Products,
        gender \in Genders}

Init == InitWith(Files(ChurnRows, MaxRows), {NaN}, NaN)
Spec == Init /\ [][Next]_vars

\* Valid rows that differ in age (missing, 19, 20, 100) and gender.
AgeRows ==
    {RawRow(<<2024, 1, 31>>, NaN, <<3>>, <<"A">>, <<gender>>, age) :
        age \in {NaN, <<19>>, <<20>>, <<100>>},
        gender \in Genders}

InitAge == InitWith(Files(AgeRows, MaxRows), {NaN}, NaN)
SpecAge == InitAge /\ [][Next]_vars

\* Valid rows that differ in contract date, price and product.
RevenueRows ==
    {RawRow(cd, NaN, price, <<product>>, <<"F">>, <<20>>) :
        cd \in {<<2023, 2, 10>>, <<2024, 1, 31>>, <<2024, 2, 1>>, <<2024, 2, 29>>},
        price \in {<<2>>, <<3>>},
        product \in Products}

InitRevenue == InitWith(Files(RevenueRows, MaxRows), {NaN}, NaN)
SpecRevenue == InitRevenue /\ [][Next]_vars

\* Valid rows that differ in gender and product, for interleaved requests.
ConcRows ==
    {RawRow(<<2024, 1, 31>>, NaN, <<3>>, <<product>>, <<gender>>, <<20>>) :
        product \in Products, gender \in Genders}

NextConc ==
    \/ LoadOk \/ LoadFileNotFound \/ LoadRaises
    \/ CallAny \/ StepGenderAny \/ StepProductAny \/ StepBuildAny \/ ReturnAny

InitConc == InitWith(Files(ConcRows, MaxConcRows), {NaN}, NaN)
SpecConc == InitConc /\ [][NextConc]_vars

\* Ages around every breakpoint, below 0 and from 100 up, and a missing age.
CutInputs == {NaN} \cup {<<a>> : a \in (0 - 2)..MaxAge}

InitCut ==
    InitWith({[status |-> "missing", rows |-> <<>>]}, CutInputs, <<"pending">>)

NextCut == Cut
SpecCut == InitCut /\ [][NextCut]_vars

-----------------------------------------------------------------------------
(* Properties *)

Called == figs # <<>>

\* The rows a selector pair asks for, stated on df directly.
Matches(r, sel) ==
    /\ sel[1] = All \/ r.Gender = <<sel[1]>>
    /\ sel[2] = All \/ r.ProductName = <<sel[2]>>
Subset(sel) == SelectSeq(df, LAMBDA r : Matches(r, sel))

OptionValues(opts) == {opts[i].value : i \in 1..Len(opts)}

\* A raw row with all four required cells present after date parsing.
Admitted(r) ==
    /\ IsDate(r.KeiyakuNichiji)
    /\ notna(r.Kakaku)
    /\ notna(r.Seibetsu)
    /\ notna(r.ShohinMei)

\* C1: after a successful read, every row of df has a non-null
\* ContractDate, Price, Gender and ProductName, and df holds exactly the raw
\* rows whose four required cells are present after date parsing (an
\* unparsable contract text counts as missing), each of them whole.
C1_RowAdmission ==
    (phase = "ready" /\ data_csv.status = "ok") =>
        LET adm == SelectSeq(data_csv.rows, Admitted)
        IN /\ \A i \in 1..Len(df) :
                  /\ notna(df[i].ContractDate)
                  /\ notna(df[i].Price)
                  /\ notna(df[i].Gender)
                  /\ notna(df[i].ProductName)
           /\ Len(df) = Len(adm)
           /\ \E p \in IndexPermutations(Len(adm)) :
                  \A i \in 1..Len(adm) :
                      /\ df[i].ContractDate = adm[p[i]].KeiyakuNichiji
                      /\ df[i].Price = adm[p[i]].Kakaku
                      /\ df[i].Gender = adm[p[i]].Seibetsu
                      /\ df[i].ProductName = adm[p[i]].ShohinMei
                      /\ df[i].Age = adm[p[i]].Nenrei

\* C1 witness: a file with one row kept and one row dropped for its
\* unparsable contract date alone.
C1_Witness ==
    /\ phase = "ready"
    /\ data_csv.status = "ok"
    /\ Len(data_csv.rows) = 2
    /\ Len(df) = 1
    /\ \E i \in 1..2 :
           LET r == data_csv.rows[i]
           IN /\ notna(r.KeiyakuNichiji) /\ ~IsDate(r.KeiyakuNichiji)
              /\ notna(r.Kakaku) /\ notna(r.Seibetsu) /\ notna(r.ShohinMei)

FourOf(f) == <<f, f, f, f>>

EmptyDatasetState ==
    /\ phase = "ready"
    /\ df = <<>>
    /\ gender_options = <<AllOption>>
    /\ product_options = <<AllOption>>
    /\ Called => figs = FourOf(empty_fig)

C3_EmptySubsetPlaceholders ==
    (Called /\ df # <<>> /\ Subset(selected) = <<>>) =>
        \A k \in 1..4 : figs[k] = no_match_fig

\* C3 witness: both selectors are values of the option lists, no row has
\* both, and update_graphs has answered.
C3_Witness ==
    /\ Called
    /\ df # <<>>
    /\ selected[1] \in OptionValues(gender_options) \ {All}
    /\ selected[2] \in OptionValues(product_options) \ {All}
    /\ Subset(selected) = <<>>
    /\ figs = FourOf(no_match_fig)

\* C4: the filtered frame update_graphs works on is exactly the rows of df
\* whose gender equals the gender selector (or it is "All") and whose product
\* equals the product selector (or it is "All"); for ("All", "All") it is df
\* itself and the figures are those of the unfiltered df.
C4_FilterExact ==
    (Called /\ df # <<>>) =>
        /\ filtered_df = Subset(selected)
        /\ selected = <<All, All>> =>
               /\ filtered_df = df
               /\ figs \in build_figs(df)

\* C4 witness: both selectors narrow, and some but not all rows remain.
C4_Witness ==
    /\ Called
    /\ selected[1] # All
    /\ selected[2] # All
    /\ Len(filtered_df) >= 1
    /\ Len(filtered_df) < Len(df)
    /\ \E i \in 1..Len(df) : df[i].Gender = <<selected[1]>> /\ df[i].ProductName # <<selected[2]>>

MonthOf(ts) == ts[1] * 12 + ts[2]

\* C5: the monthly revenue table has exactly one row per calendar month
\* holding a filtered contract, in strictly increasing month order, and its
\* revenues add up to the sum of Price over the filtered rows.
C5_MonthlyRevenue ==
    (Called /\ df # <<>>) =>
        LET sub == Subset(selected)
            months == {MonthOf(sub[i].ContractDate) : i \in 1..Len(sub)}
            t == figs[1].data
        IN IF sub = <<>> THEN figs[1] = no_match_fig
           ELSE /\ figs[1].kind = "line"
                /\ Len(t) = Cardinality(months)
                /\ {MonthOf(t[i].ContractDate) : i \in 1..Len(t)} = months
                /\ \A i \in 1..(Len(t) - 1) :
                       MonthOf(t[i].ContractDate) < MonthOf(t[i + 1].ContractDate)
                /\ SumSeq([i \in 1..Len(t) |-> t[i].Price])
                       = SumSeq([i \in 1..Len(sub) |-> sub[i].Price[1]])

\* C5 witness: a product filter keeps two contracts of the same month
\* number in different years, and the table has two rows in time order.
C5_Witness ==
    /\ Called
    /\ selected[2] # All
    /\ figs[1].kind = "line"
    /\ Len(figs[1].data) = 2
    /\ figs[1].data[1].ContractDate = <<2023, 2, 1>>
    /\ figs[1].data[2].ContractDate = <<2024, 2, 1>>
    /\ figs[1].data[1].Price # figs[1].data[2].Price

\* Number of rows of d with product name, and of those the cancelled ones.
ProductRows(d, name) == Cardinality({i \in 1..Len(d) : d[i].ProductName = <<name>>})
CancelledRows(d, name) ==
    Cardinality({i \in 1..Len(d) : d[i].ProductName = <<name>> /\ d[i].IsCancelled})

\* C6: is_cancelled is true exactly for the rows with a cancellation date;
\* in the churn table of a non-empty filtered subset there is one row per
\* product of the subset, with total_contracts its number of rows (> 0),
\* cancellations the number of those that are cancelled, and churn_rate_pct
\* = 100 * cancellations / total_contracts: so cancellations <=
\* total_contracts, the rate is 0 with no cancellation and 100 when every
\* contract is cancelled.
C6_ChurnRate ==
    (Called /\ df # <<>> /\ Subset(selected) # <<>>) =>
        LET sub == Subset(selected)
            t == figs[3].data
        IN /\ \A i \in 1..Len(df) :
                  df[i].IsCancelled = (df[i].CancellationDate # NaT)
           /\ figs[3].kind = "bar"
           /\ Len(t) = Cardinality({sub[i].ProductName : i \in 1..Len(sub)})
           /\ \A i \in 1..Len(t) :
                  LET total == ProductRows(sub, t[i].ProductName)
                      canc == CancelledRows(sub, t[i].ProductName)
                  IN /\ total > 0
                     /\ t[i].TotalContracts = total
                     /\ t[i].Cancellations = canc
                     /\ canc <= total
                     /\ t[i].ChurnRate[1] * total = 100 * canc * t[i].ChurnRate[2]
                     /\ canc = 0 => t[i].ChurnRate = <<0, 1>>
                     /\ canc = total => t[i].ChurnRate = <<100, 1>>

\* C6 witness: filtering product "A" gives total 2, cancellations 1, rate 50.
C6_Witness ==
    /\ Called
    /\ selected[2] = "A"
    /\ figs[3].kind = "bar"
    /\ figs[3].data = <<[ProductName |-> "A", TotalContracts |-> 2,
                         Cancellations |-> 1, ChurnRate |-> <<50, 1>>]>>

ExpectedLabel(a) ==
    IF a < 20 THEN "~19"
    ELSE IF a < 30 THEN "20s"
    ELSE IF a < 40 THEN "30s"
    ELSE IF a < 50 THEN "40s"
    ELSE IF a < 60 THEN "50s"
    ELSE IF a < 70 THEN "60s"
    ELSE "70+"

\* C7: pd.cut gives every age in [0, 100) exactly one of the seven labels,
\* left-inclusive and right-exclusive at 0, 20, 30, ..., 70, 100 (age 20 is
\* "20s"), and gives an age of 100 or more no label.
C7_AgeBuckets ==
    (cut_out # <<"pending">> /\ notna(cut_x) /\ cut_x[1] >= 0) =>
        IF cut_x[1] >= 100 THEN cut_out = NaN
        ELSE /\ cut_out = <<ExpectedLabel(cut_x[1])>>
             /\ Cardinality({k \in 1..Len(labels) : cut_out = <<labels[k]>>}) = 1

\* C7 witness: the boundary age 20 has been cut into "20s".
C7_Witness == cut_x = <<20>> /\ cut_out = <<"20s">>

AloneResults(sel) ==
    IF df = <<>> THEN {FourOf(empty_fig)}
    ELSE build_figs(SelectSeq(df, LAMBDA r : Matches(r, sel)))

C8_ResultAsAlone ==
    \A t \in Threads : pc[t] = "done" => ret[t] \in AloneResults(args[t])

C8_DatasetUnchanged ==
    phase = "ready" =>
        /\ df' = df
        /\ gender_options' = gender_options
        /\ product_options' = product_options

\* C8: however the statements of concurrent update_graphs calls interleave,
\* df and both option lists stay as the load left them, and what a call
\* returns is a result it could return running alone on df.
C8_NoInterference == [](C8_ResultAsAlone) /\ [][C8_DatasetUnchanged]_vars

\* C8 witness: one call has returned its figures while another call with
\* other selectors is between its two filter statements.
C8_Witness ==
    /\ df # <<>>
    /\ pc[1] = "done"
    /\ pc[2] = "filter_product"
    /\ args[1] # args[2]
    /\ frames[1] # frames[2]

LabelPosition(l) == CHOOSE i \in 1..7 : labels[i] = l

AgeGroupOrdered(t) ==
    \A i, j \in 1..Len(t) :
        i < j => LabelPosition(t[i].AgeGroup) <= LabelPosition(t[j].AgeGroup)

\* C9 as stated: the age-group x gender table of a non-empty filtered subset
\* is ordered by the fixed label sequence and holds every one of the seven
\* labels, also those with count zero.
C9_AllLabelsPresent ==
    (Called /\ df # <<>> /\ Subset(selected) # <<>>) =>
        /\ figs[2].kind = "bar"
        /\ AgeGroupOrdered(figs[2].data)
        /\ {figs[2].data[i].AgeGroup : i \in 1..Len(figs[2].data)} = Range(labels)

\* C9 amended: the table holds one row for each (age_group, gender) pair
\* that occurs among the filtered rows with an age in [0, 100), with its
\* number of rows, ordered by the fixed label sequence (never
\* alphabetically); a label no filtered row has is absent from the table, the
\* full seven-label sequence is only the category order handed to the chart,
\* and when no filtered row has an age group the figure is the placeholder.
C9_ObservedLabelsInOrder ==
    (Called /\ df # <<>> /\ Subset(selected) # <<>>) =>
        LET sub == Subset(selected)
            grouped == {r \in Range(sub) : notna(r.AgeGroup)}
            observed == {<<r.AgeGroup[1], r.Gender[1]>> : r \in grouped}
            t == figs[2].data
        IN IF observed = {} THEN figs[2] = no_match_fig
           ELSE /\ figs[2].kind = "bar"
                /\ figs[2].category_orders
                       = <<"~19", "20s", "30s", "40s", "50s", "60s", "70+">>
                /\ Len(t) = Cardinality(observed)
                /\ {<<t[i].AgeGroup, t[i].Gender>> : i \in 1..Len(t)} = observed
                /\ \A i \in 1..Len(t) :
                       t[i].ContractCount =
                           Cardinality({k \in 1..Len(sub) :
                                           /\ sub[k].AgeGroup = <<t[i].AgeGroup>>
                                           /\ sub[k].Gender = <<t[i].Gender>>})
                /\ AgeGroupOrdered(t)

\* C9 witness: ages 19 and 20 are present; "~19" comes before "20s" and no
\* other label is in the table.
C9_Witness ==
    /\ Called
    /\ figs[2].kind = "bar"
    /\ Len(figs[2].data) = 2
    /\ figs[2].data[1].AgeGroup = "~19"
    /\ figs[2].data[2].AgeGroup = "20s"

RateDescending(t) ==
    \A i \in 1..(Len(t) - 1) :
        t[i + 1].ChurnRate[1] * t[i].ChurnRate[2]
            <= t[i].ChurnRate[1] * t[i + 1].ChurnRate[2]

GroupedPosition(g, row) == CHOOSE i \in 1..Len(g) : g[i] = row

SameRows(t, g) == Len(t) = Len(g) /\ Range(t) = Range(g)

\* C10 as stated: the churn table is sorted by churn_rate_pct descending and
\* two products of equal rate keep the order they had in the grouped table.
C10_StableDescending ==
    (Called /\ figs[3].kind = "bar") =>
        LET t == figs[3].data
            g == churn_summary(filtered_df)
        IN /\ SameRows(t, g)
           /\ RateDescending(t)
           /\ \A i, j \in 1..Len(t) :
                  (i < j /\ t[i].ChurnRate = t[j].ChurnRate)
                      => GroupedPosition(g, t[i]) < GroupedPosition(g, t[j])

\* C10 amended: the churn table holds the rows of the grouped table sorted
\* by churn_rate_pct descending; the order of two products of equal rate is
\* not determined.
C10_Descending ==
    (Called /\ figs[3].kind = "bar") =>
        /\ SameRows(figs[3].data, churn_summary(filtered_df))
        /\ RateDescending(figs[3].data)

\* C10 witness: product "B" with the higher rate has moved ahead of "A".
C10_Witness ==
    /\ Called
    /\ figs[3].kind = "bar"
    /\ Len(figs[3].data) = 2
    /\ figs[3].data[1].ProductName = "B"
    /\ figs[3].data[1].ChurnRate = <<100, 1>>
    /\ figs[3].data[2].ChurnRate = <<0, 1>>

====
